---- MODULE Spec2Model ----
(***************************************************************************)
(* Model of the two Ansible package modules of this repository:            *)
(*   src/linuxbrew.py  (class Linuxbrew)  and  src/conda.py (class Conda). *)
(* One run of run() is modelled as a state machine.  Every external        *)
(* command (module.run_command) appends one entry to `log`; the package    *)
(* manager's on-disk state is `installed`, `outdated`, `envs`.             *)
(*                                                                         *)
(* Strings are TLA+ strings; Chars gives the characters of the identifiers *)
(* the model draws its inputs from, so that the validators scan characters *)
(* as the regular expressions of the source do.                            *)
(*                                                                         *)
(* conda.py is modelled method by method as its statements read (the       *)
(* object's fields hold the values passed to the constructor).             *)
(***************************************************************************)
EXTENDS Integers, Sequences, FiniteSets, TLC

VARIABLES
    variant,            \* "brew" (linuxbrew.py) or "conda" (conda.py)
    packages,           \* self.packages
    state,              \* self.state
    update_linuxbrew,   \* self.update_linuxbrew
    upgrade_all,        \* self.upgrade_all
    install_options,    \* self.install_options
    environment,        \* Conda.environment ("" is None)
    channels,           \* Conda.channels (<<>> is None)
    update_conda,       \* Conda.update_conda
    update_only,        \* Conda.update_only
    conda_info,         \* the tokens of `conda info` read by _prep_conda_path
    candidate,          \* the argument of a validator call, as characters
    runs,               \* how many times main() was entered with this request
    check_mode,         \* module.check_mode
    failed, changed, changed_count, unchanged_count, message,
    current_package,    \* Linuxbrew._current_package ("" is None)
    i,                  \* position of the for loop over self.packages
    command,            \* local `command` of _upgrade_current_package
    new_env,            \* local `new_env` of Conda._install_packages
    pc,                 \* position in the code
    installed, outdated, envs,   \* state of the package manager on disk
    log,                \* every module.run_command call, in order
    result              \* the triple returned by run()

reqVars == <<variant, packages, state, update_linuxbrew, upgrade_all,
             install_options, environment, channels, update_conda,
             update_only, conda_info, candidate, check_mode, runs>>
statusVars == <<failed, changed, changed_count, unchanged_count, message>>
worldVars == <<installed, outdated, envs>>
localVars == <<current_package, i, command, new_env>>
vars == <<reqVars, statusVars, worldVars, localVars, pc, log, result>>

(***************************************************************************)
(* Bounds                                                                  *)
(***************************************************************************)
MaxBatch == 3
\* the most components of a reported version
MaxVersionParts == 3
\* the most characters of a string handed to a validator
MaxNameLen == 2
\* the most invocations of the module with one request
MaxRuns == 2

(***************************************************************************)
(* Characters and validators                                               *)
(***************************************************************************)
WordChars == {"a", "b", "e", "f", "n", "o", "r", "v", "x", "y", "1", "_"}

\* the characters of the identifiers the inputs are drawn from
Chars(s) ==
    CASE s = "foo"  -> <<"f", "o", "o">>
      [] s = "a+b"  -> <<"a", "+", "b">>
      [] s = "x;y"  -> <<"x", ";", "y">>
      [] s = "env1" -> <<"e", "n", "v", "1">>
      [] s = "e;v"  -> <<"e", ";", "v">>
      [] s = "bio"  -> <<"b", "i", "o">>
      [] s = "r;x"  -> <<"r", ";", "x">>
      [] OTHER      -> <<>>

\* the characters the model knows and their code points
Punctuation == {" ", "+", ",", "-", ".", "/", ":", ";", "="}
AllChars == WordChars \cup {"i"} \cup Punctuation

Code(c) ==
    CASE c = " " -> 32  [] c = "+" -> 43  [] c = "," -> 44  [] c = "-" -> 45
      [] c = "." -> 46  [] c = "/" -> 47  [] c = "1" -> 49  [] c = ":" -> 58
      [] c = ";" -> 59  [] c = "=" -> 61  [] c = "_" -> 95  [] c = "a" -> 97
      [] c = "b" -> 98  [] c = "e" -> 101 [] c = "f" -> 102 [] c = "i" -> 105
      [] c = "n" -> 110 [] c = "o" -> 111 [] c = "r" -> 114 [] c = "v" -> 118
      [] c = "x" -> 120 [] c = "y" -> 121

\* the character an item of a bracket expression stands for
Literal(item) == IF item = "\\+" THEN "+" ELSE item

\* The characters matched by the items items[n..] of a bracket expression,
\* as the regular-expression compiler reads them: an item followed by "-"
\* and a further item is the range of code points between the two, any
\* other item stands for itself, and \w for the word characters.
RECURSIVE ClassFrom(_, _)
ClassFrom(items, n) ==
    IF n > Len(items) THEN {}
    ELSE IF items[n] = "\\w"
         THEN WordChars \cup {"i"} \cup ClassFrom(items, n + 1)
    ELSE IF n + 2 <= Len(items) /\ items[n + 1] = "-"
         THEN {c \in AllChars :
                  /\ Code(Literal(items[n])) <= Code(c)
                  /\ Code(c) <= Code(Literal(items[n + 2]))}
              \cup ClassFrom(items, n + 3)
    ELSE {Literal(items[n])} \cup ClassFrom(items, n + 1)

\* the items _create_regex_group joins between "[^" and "]"
BREW_VALID_PACKAGE_CHARS == ClassFrom(<<"\\w", ".", "/", "\\+", "-", ":">>, 1)
CONDA_VALID_PACKAGE_CHARS == ClassFrom(<<"\\w", ".", "=", "-">>, 1)
CONDA_VALID_ENV_CHARS == ClassFrom(<<"\\w", ".", "-">>, 1)

\* INVALID_*_REGEX.search(s): some character outside the class
InvalidSearch(cs, class) == \E n \in 1..Len(cs) : cs[n] \notin class

brew_valid_package(p) ==
    p = "" \/ ~InvalidSearch(Chars(p), BREW_VALID_PACKAGE_CHARS)

conda_valid_environment(name) ==
    name # "" /\ ~InvalidSearch(Chars(name), CONDA_VALID_ENV_CHARS)

conda_valid_package(p) ==
    p # "" /\ ~InvalidSearch(Chars(p), CONDA_VALID_PACKAGE_CHARS)

(***************************************************************************)
(* Text helpers                                                            *)
(***************************************************************************)
Whitespace == {" ", "\n", "\t"}

RECURSIVE LStrip(_)
LStrip(cs) ==
    IF cs # <<>> /\ Head(cs) \in Whitespace THEN LStrip(Tail(cs)) ELSE cs

RECURSIVE RStrip(_)
RStrip(cs) ==
    IF cs # <<>> /\ cs[Len(cs)] \in Whitespace
    THEN RStrip(SubSeq(cs, 1, Len(cs) - 1)) ELSE cs

RECURSIVE Join(_)
Join(cs) == IF cs = <<>> THEN "" ELSE Head(cs) \o Join(Tail(cs))

\* err.strip()
Strip(cs) == Join(RStrip(LStrip(cs)))

\* "Changed: %d, Unchanged: %d" % (changed_count, unchanged_count)
SummaryMessage(c, u) ==
    "Changed: " \o ToString(c) \o ", Unchanged: " \o ToString(u)

\* [opt for opt in opts if opt]
DropEmpty(opts) == SelectSeq(opts, LAMBDA o : o # "")

(***************************************************************************)
(* Inputs                                                                  *)
(***************************************************************************)
BrewPackageIds == {"foo", "a+b", "x;y"}
BrewNames == {"foo", "a+b"}
BrewStates == {"installed", "upgraded", "head", "linked", "unlinked", "absent"}
InstallOptionLists == {<<"--with-baz">>}
\* stderr of a command that exits with r, as characters
ErrTexts(r) == IF r = 0 THEN {<<>>} ELSE {<<"\n", "E", "r", "r", " ">>}
\* stdout of `brew update` / `brew upgrade`, as lines
UpdateOuts == {<<>>, <<"Already up-to-date.">>, <<"ALREADY UP-TO-DATE.">>,
               <<"Updated 1 tap.">>}
UpgradeOuts == {<<>>, <<"Upgrading foo">>}

CondaPackageIds == {"foo", "x;y"}
CondaStates == {"present", "absent", "remove_env"}
EnvironmentNames == {"", "env1", "e;v"}
\* self.channels as the words and blanks of the string
ChannelTexts == {<<>>, <<"bio">>, <<" ", "bio", " ", "r;x">>}
\* stdout of `conda install` / `conda create` / `conda update`, as lines
CondaOuts == {<<>>, <<"Fetching package metadata", "Installing">>,
              <<"# All requested packages already installed.">>,
              <<"# ALL REQUESTED PACKAGES ALREADY INSTALLED.">>}
CondaBatches == UNION {[1..n -> CondaPackageIds] : n \in 0..MaxBatch}

conda_path == "/mnt/gvl/apps/anaconda_ete/bin/conda"

Batches == UNION {[1..n -> BrewPackageIds] : n \in 0..MaxBatch}

brew_path == "/usr/local/bin/brew"

\* the versions the runs of the conda variant are started with: one that the
\* gate flags and one that it does not
MainVersions == {<<"4", "0", "11">>, <<"3", "9", "9">>}

(***************************************************************************)
(* State discovery                                                         *)
(***************************************************************************)
\* stdout of `brew info <p>`, as lines
InfoOut(p) ==
    IF p \in installed
    THEN <<p \o ": stable", "Poured from bottle">>
    ELSE <<p \o ": stable", "Not installed">>

\* the scan of _current_package_is_installed over the lines of out
InstalledMarker(out) ==
    \E n \in 1..Len(out) : out[n] \in {"Built from source", "Poured from bottle"}

\* An argument vector is a sequence of arguments; an argument is the
\* sequence of its items: <<s>> for a string s, the items of a nested list
\* for a list (Conda._install_packages appends lists to cmd).
Words(ss) == [n \in 1..Len(ss) |-> <<ss[n]>>]

\* one run_command call: the method that made it, its argument vector, the
\* position in self.packages of the package it is about (0: none), the exit
\* code and stderr it returned and, for a discovery query, the answer the
\* caller read from it
Entry(op, argv, k, r, e, a) ==
    [op |-> op, argv |-> argv, idx |-> k, rc |-> r, err |-> e, ans |-> a]

\* (rc, err) of the mutating command issued last: the locals rc, err
LastErr == log[Len(log)].err

\* the run_command call of _current_package_is_installed
InfoEntry ==
    Entry("info", Words(<<brew_path, "info", current_package>>), i, 0, <<>>,
          InstalledMarker(InfoOut(current_package)))

\* the run_command call of _current_package_is_outdated
OutdatedEntry ==
    LET r == IF current_package \in outdated THEN 1 ELSE 0
    IN  Entry("outdated", Words(<<brew_path, "outdated", current_package>>), i, r, <<>>, r # 0)

MutatingOps == {"install", "upgrade", "uninstall", "link", "unlink",
                "update", "upgrade_all", "create", "remove", "conda_update"}

(***************************************************************************)
(* The version gate of Conda._prep_conda_path                              *)
(***************************************************************************)
CONDA_MAJOR_VERSION == 4
CONDA_MINOR_VERSION == 0
CONDA_TERT_VERSION == 11

\* the components a reported version is made of
VersionParts == {"0", "3", "4", "9", "11", "12"}

\* the number a version component stands for: the components are compared
\* with the integer constants as numbers
Num(c) ==
    CASE c = "0" -> 0
      [] c = "3" -> 3
      [] c = "4" -> 4
      [] c = "9" -> 9
      [] c = "11" -> 11
      [] c = "12" -> 12

\* conda_return[2].split('.') for the versions of at most n components
Versions(n) == UNION {[1..k -> VersionParts] : k \in 1..n}

ToolNames == {"conda", "anaconda"}

\* The comparisons of _prep_conda_path on conda_version = v, where the
\* source's conda_version[k] is v[k + 1]: "True" or "False" for update_only,
\* "IndexError" when a component that is read does not exist.
VersionGate(v) ==
    IF Len(v) < 2 THEN "IndexError"
    ELSE IF Num(v[2]) < CONDA_MAJOR_VERSION THEN "True"
    ELSE IF Num(v[2]) = CONDA_MAJOR_VERSION
         THEN IF Len(v) < 3 THEN "IndexError"
              ELSE IF Num(v[3]) < CONDA_MINOR_VERSION THEN "True"
              ELSE IF Num(v[3]) = CONDA_MINOR_VERSION
                   THEN IF Len(v) < 4 THEN "IndexError"
                        ELSE IF v[4] # "" /\ Num(v[4]) < CONDA_TERT_VERSION
                             THEN "True" ELSE "False"
                   ELSE "False"
         ELSE "False"

(***************************************************************************)
(* Initial state: the object after construction                            *)
(***************************************************************************)
InitStatus ==
    /\ failed = FALSE
    /\ changed = FALSE
    /\ changed_count = 0
    /\ unchanged_count = 0
    /\ message = ""

InitLocals ==
    /\ current_package = ""
    /\ i = 0
    /\ command = ""
    /\ new_env = FALSE
    /\ log = <<>>
    /\ result = <<>>

InitBrew ==
    /\ variant = "brew"
    /\ packages \in Batches
    /\ state \in BrewStates
    /\ update_linuxbrew \in BOOLEAN
    /\ upgrade_all \in BOOLEAN
    /\ install_options \in InstallOptionLists
    /\ check_mode \in BOOLEAN
    /\ environment = ""
    /\ channels = <<>>
    /\ update_conda = FALSE
    /\ update_only = FALSE
    /\ conda_info = [name |-> "", version |-> <<>>]
    /\ candidate = <<>>
    /\ runs = 1
    /\ installed \in SUBSET BrewNames
    /\ outdated \in SUBSET installed
    /\ envs = {}
    /\ pc = "_run"

InitConda ==
    /\ variant = "conda"
    /\ packages \in CondaBatches
    /\ state \in CondaStates
    /\ environment \in EnvironmentNames
    /\ channels \in ChannelTexts
    /\ update_conda \in BOOLEAN
    /\ conda_info \in [name : {"conda"}, version : MainVersions]
    /\ candidate = <<>>
    /\ runs = 1
    /\ update_only = (VersionGate(conda_info.version) = "True")
    /\ check_mode \in BOOLEAN
    /\ update_linuxbrew = FALSE
    /\ upgrade_all = FALSE
    /\ install_options = <<>>
    /\ installed = {}
    /\ outdated = {}
    /\ envs \in SUBSET {"env1"}
    /\ pc = "_run"

Init == InitStatus /\ InitLocals /\ (InitBrew \/ InitConda)

\* Conda._prep_conda_path after the executable was found: the info command,
\* the test of the tool's name and the version gate
PrepCondaPath ==
    /\ pc = "_prep_conda_path"
    /\ log' = Append(log, [op |-> "conda_info",
                           argv |-> <<<<conda_path>>, <<"info">>>>,
                           idx |-> 0, rc |-> 0, err |-> <<>>, ans |-> FALSE])
    /\ IF conda_info.name # "conda"
       THEN /\ failed' = TRUE
            /\ message' = "Unexpected return during conda check"
            /\ pc' = "CondaException"
            /\ UNCHANGED update_only
       ELSE /\ IF VersionGate(conda_info.version) = "IndexError"
               THEN /\ pc' = "IndexError"
                    /\ update_only' = FALSE
               ELSE /\ pc' = "constructed"
                    /\ update_only' = (VersionGate(conda_info.version) = "True")
            /\ UNCHANGED <<failed, message>>
    /\ UNCHANGED <<variant, packages, state, update_linuxbrew, upgrade_all,
                   install_options, environment, channels, update_conda,
                   conda_info, candidate, check_mode, runs, changed, changed_count,
                   unchanged_count, worldVars, localVars, result>>

\* the constructor of Conda on every reported name and version
GateInit ==
    /\ InitStatus /\ InitLocals
    /\ variant = "conda"
    /\ packages = <<>>
    /\ state = "present"
    /\ environment = ""
    /\ channels = <<>>
    /\ update_conda = FALSE
    /\ update_only = FALSE
    /\ conda_info \in [name : ToolNames, version : Versions(MaxVersionParts)]
    /\ candidate = <<>>
    /\ runs = 1
    /\ check_mode = FALSE
    /\ update_linuxbrew = FALSE
    /\ upgrade_all = FALSE
    /\ install_options = <<>>
    /\ installed = {}
    /\ outdated = {}
    /\ envs = {}
    /\ pc = "_prep_conda_path"

GateNext == PrepCondaPath

GateSpec == GateInit /\ [][GateNext]_vars

(***************************************************************************)
(* The validators as pure functions of a string                            *)
(***************************************************************************)
\* the characters the validated strings are made of
NameChars == {"a", "1", "_", ".", "/", "+", "-", ":", "=", ",", ";", " "}

Names(n) == UNION {[1..k -> NameChars] : k \in 0..n}

ValidInit ==
    /\ InitStatus /\ InitLocals
    /\ variant \in {"brew", "conda"}
    /\ packages = <<>>
    /\ state = "present"
    /\ environment = ""
    /\ channels = <<>>
    /\ update_conda = FALSE
    /\ update_only = FALSE
    /\ conda_info = [name |-> "", version |-> <<>>]
    /\ candidate \in Names(MaxNameLen)
    /\ runs = 1
    /\ check_mode = FALSE
    /\ update_linuxbrew = FALSE
    /\ upgrade_all = FALSE
    /\ install_options = <<>>
    /\ installed = {}
    /\ outdated = {}
    /\ envs = {}
    /\ pc = "validate"

\* a call of the class method `method` that returns `value`
Validate(v, method, value) ==
    /\ pc = "validate"
    /\ variant = v
    /\ pc' = method
    /\ result' = <<value>>
    /\ UNCHANGED <<reqVars, statusVars, worldVars, localVars, log>>

\* Linuxbrew.valid_package(candidate)
BrewValidPackage ==
    Validate("brew", "Linuxbrew.valid_package",
             ~InvalidSearch(candidate, BREW_VALID_PACKAGE_CHARS))

\* Conda.valid_package(candidate)
CondaValidPackage ==
    Validate("conda", "Conda.valid_package",
             ~InvalidSearch(candidate, CONDA_VALID_PACKAGE_CHARS))

\* Conda.valid_environment(candidate)
CondaValidEnvironment ==
    Validate("conda", "Conda.valid_environment",
             ~InvalidSearch(candidate, CONDA_VALID_ENV_CHARS))

ValidNext ==
    \/ BrewValidPackage
    \/ CondaValidPackage
    \/ CondaValidEnvironment

ValidSpec == ValidInit /\ [][ValidNext]_vars

(***************************************************************************)
(* Control flow helpers                                                    *)
(***************************************************************************)
\* raise LinuxbrewException / CondaException: caught in run()
Raise(msg) ==
    /\ message' = msg
    /\ pc' = "run"

\* self.failed = True; self.message = msg; raise
Fatal(msg) ==
    /\ failed' = TRUE
    /\ Raise(msg)
    /\ UNCHANGED <<changed, changed_count, unchanged_count>>

\* self.changed = True; self.message = msg; raise  (check mode)
WouldChange(msg) ==
    /\ changed' = TRUE
    /\ Raise(msg)
    /\ UNCHANGED <<failed, changed_count, unchanged_count>>

\* self.unchanged_count += 1; self.message = msg; return True
Unchanged(msg) ==
    /\ unchanged_count' = unchanged_count + 1
    /\ message' = msg
    /\ UNCHANGED <<failed, changed, changed_count>>

\* Changed counting the unit in both counters
Changed_CountsBoth(msg) ==
    /\ changed_count' = changed_count + 1
    /\ unchanged_count' = unchanged_count + 1
    /\ changed' = TRUE
    /\ message' = msg
    /\ UNCHANGED failed

\* self.changed_count += 1; self.changed = True; self.message = msg
Changed(msg) ==
    /\ changed_count' = changed_count + 1
    /\ changed' = TRUE
    /\ message' = msg
    /\ UNCHANGED <<failed, unchanged_count>>

\* the locals of a handler are gone when it returns or raises
ForgetLocals ==
    /\ command' = ""
    /\ UNCHANGED new_env

\* the branch of _run on self.packages and self.state
BrewDispatch ==
    IF packages = <<>> THEN "run"
    ELSE CASE state \in {"installed", "head"} -> "_install_packages"
           [] state = "upgraded" -> "_upgrade_packages"
           [] state = "linked"   -> "_link_packages"
           [] state = "unlinked" -> "_unlink_packages"
           [] state = "absent"   -> "_uninstall_packages"

AfterUpdate == IF upgrade_all THEN "_upgrade_all" ELSE BrewDispatch

\* Linuxbrew._run up to its first call
Run_ ==
    /\ pc = "_run"
    /\ variant = "brew"
    /\ pc' = IF update_linuxbrew THEN "_update_linuxbrew" ELSE AfterUpdate
    /\ UNCHANGED <<reqVars, statusVars, worldVars, localVars, log, result>>

\* re.search(r'Already up-to-date.', s.strip(), re.IGNORECASE) on a line
AlreadyUpToDate(line) ==
    line \in {"Already up-to-date.", "ALREADY UP-TO-DATE."}

\* UpdateLinuxbrew without the test of rc
UpdateLinuxbrew_IgnoresExitCode ==
    /\ pc = "_update_linuxbrew"
    /\ \E r \in {0, 1}, out \in UpdateOuts : \E e \in ErrTexts(r) :
        /\ log' = Append(log, Entry("update", Words(<<brew_path, "update">>), 0, r, e, FALSE))
        /\ IF out # <<>>
           THEN IF ~\E n \in 1..Len(out) : AlreadyUpToDate(out[n])
                THEN /\ changed' = TRUE
                     /\ message' = "Linuxbrew updated successfully."
                ELSE /\ message' = "Linuxbrew already up-to-date."
                     /\ UNCHANGED changed
           ELSE UNCHANGED <<changed, message>>
        /\ pc' = AfterUpdate
        /\ UNCHANGED <<failed, changed_count, unchanged_count>>
    /\ UNCHANGED <<reqVars, worldVars, current_package, i, command, new_env, result>>

UpdateLinuxbrew ==
    /\ pc = "_update_linuxbrew"
    /\ \E r \in {0, 1}, out \in UpdateOuts : \E e \in ErrTexts(r) :
        /\ log' = Append(log, Entry("update", Words(<<brew_path, "update">>), 0, r, e, FALSE))
        /\ IF r = 0
           THEN /\ IF out # <<>>
                   THEN IF ~\E n \in 1..Len(out) : AlreadyUpToDate(out[n])
                        THEN /\ changed' = TRUE
                             /\ message' = "Linuxbrew updated successfully."
                        ELSE /\ message' = "Linuxbrew already up-to-date."
                             /\ UNCHANGED changed
                   ELSE UNCHANGED <<changed, message>>
                /\ pc' = AfterUpdate
                /\ UNCHANGED <<failed, changed_count, unchanged_count>>
           ELSE Fatal(Strip(e))
    /\ UNCHANGED <<reqVars, worldVars, current_package, i, command, new_env, result>>

UpgradeAll ==
    /\ pc = "_upgrade_all"
    /\ \E r \in {0, 1}, out \in UpgradeOuts, w \in SUBSET outdated : \E e \in ErrTexts(r) :
        /\ log' = Append(log, Entry("upgrade_all", Words(<<brew_path, "upgrade">>), 0, r, e, FALSE))
        /\ outdated' = w
        /\ IF r = 0
           THEN /\ IF out = <<>>
                   THEN /\ message' = "Linuxbrew packages already upgraded."
                        /\ UNCHANGED changed
                   ELSE /\ changed' = TRUE
                        /\ message' = "Linuxbrew upgraded."
                /\ pc' = BrewDispatch
                /\ UNCHANGED <<failed, changed_count, unchanged_count>>
           ELSE Fatal(Strip(e))
    /\ UNCHANGED <<reqVars, installed, envs, current_package, i, command, new_env, result>>

(***************************************************************************)
(* The for loops: self.current_package = package (the validating setter)   *)
(***************************************************************************)
\* LoopHead taking the packages from the end of the list
LoopHead_Backwards(loop, body) ==
    /\ pc = loop
    /\ IF i >= Len(packages)
       THEN /\ pc' = "run"
            /\ UNCHANGED <<statusVars, current_package, i>>
       ELSE /\ i' = i + 1
            /\ IF ~brew_valid_package(packages[Len(packages) - i])
               THEN /\ current_package' = ""
                    /\ Fatal("Invalid package: " \o packages[Len(packages) - i] \o ".")
               ELSE /\ current_package' = packages[Len(packages) - i]
                    /\ pc' = body
                    /\ UNCHANGED statusVars
    /\ UNCHANGED <<reqVars, worldVars, command, new_env, log, result>>

\* one iteration head of `for package in self.packages`, body at pc `body`
LoopHead(loop, body) ==
    /\ pc = loop
    /\ IF i >= Len(packages)
       THEN /\ pc' = "run"
            /\ UNCHANGED <<statusVars, current_package, i>>
       ELSE /\ i' = i + 1
            /\ IF ~brew_valid_package(packages[i + 1])
               THEN /\ current_package' = ""
                    /\ Fatal("Invalid package: " \o packages[i + 1] \o ".")
               ELSE /\ current_package' = packages[i + 1]
                    /\ pc' = body
                    /\ UNCHANGED statusVars
    /\ UNCHANGED <<reqVars, worldVars, command, new_env, log, result>>

InstallPackages == LoopHead("_install_packages", "_install_current_package")

\* InstallCurrentPackage without the test of module.check_mode
InstallCurrentPackage_NoCheckMode ==
    /\ pc = "_install_current_package"
    /\ log' = Append(log, InfoEntry)
    /\ IF InfoEntry.ans
       THEN /\ Unchanged("Package already installed: " \o current_package)
            /\ pc' = "_install_packages"
       ELSE /\ pc' = "install"
            /\ UNCHANGED statusVars
    /\ UNCHANGED <<reqVars, worldVars, localVars, result>>

\* InstallCurrentPackage without the early return for an installed package
InstallCurrentPackage_AlwaysInstalls ==
    /\ pc = "_install_current_package"
    /\ log' = Append(log, InfoEntry)
    /\ IF check_mode
       THEN WouldChange("Package would be installed: " \o current_package)
       ELSE /\ pc' = "install"
            /\ UNCHANGED statusVars
    /\ UNCHANGED <<reqVars, worldVars, localVars, result>>

\* _install_current_package up to the install command
InstallCurrentPackage ==
    /\ pc = "_install_current_package"
    /\ log' = Append(log, InfoEntry)
    /\ IF InfoEntry.ans
       THEN /\ Unchanged("Package already installed: " \o current_package)
            /\ pc' = "_install_packages"
       ELSE IF check_mode
            THEN WouldChange("Package would be installed: " \o current_package)
            ELSE /\ pc' = "install"
                 /\ UNCHANGED statusVars
    /\ UNCHANGED <<reqVars, worldVars, localVars, result>>

\* the install command of _install_current_package
InstallCommand ==
    /\ pc = "install"
    /\ \E r \in {0, 1}, ok \in BOOLEAN : \E e \in ErrTexts(r) :
        /\ log' = Append(log, Entry("install",
                     Words(DropEmpty(<<brew_path, "install">> \o install_options
                        \o <<current_package, IF state = "head" THEN "--HEAD" ELSE "">>)),
                     i, r, e, FALSE))
        /\ installed' = IF ok THEN installed \cup {current_package} ELSE installed
    /\ pc' = "install_confirm"
    /\ UNCHANGED <<reqVars, statusVars, outdated, envs, current_package, i,
                   command, new_env, result>>

\* InstallConfirm with the raise after self.failed = True left out
InstallConfirm_NoRaise ==
    /\ pc = "install_confirm"
    /\ log' = Append(log, InfoEntry)
    /\ IF InfoEntry.ans
       THEN Changed("Package installed: " \o current_package)
       ELSE /\ failed' = TRUE
            /\ message' = Strip(LastErr)
            /\ UNCHANGED <<changed, changed_count, unchanged_count>>
    /\ pc' = "_install_packages"
    /\ ForgetLocals
    /\ UNCHANGED <<reqVars, worldVars, current_package, i, result>>

\* InstallConfirm with err in place of err.strip()
InstallConfirm_UntrimmedMessage ==
    /\ pc = "install_confirm"
    /\ log' = Append(log, InfoEntry)
    /\ IF InfoEntry.ans
       THEN /\ Changed("Package installed: " \o current_package)
            /\ pc' = "_install_packages"
       ELSE Fatal(Join(LastErr))
    /\ ForgetLocals
    /\ UNCHANGED <<reqVars, worldVars, current_package, i, result>>

\* InstallConfirm trusting the exit code, without the second query
InstallConfirm_NoQuery ==
    /\ pc = "install_confirm"
    /\ log' = log
    /\ IF log[Len(log)].rc = 0
       THEN /\ Changed("Package installed: " \o current_package)
            /\ pc' = "_install_packages"
       ELSE Fatal(Strip(LastErr))
    /\ ForgetLocals
    /\ UNCHANGED <<reqVars, worldVars, current_package, i, result>>

\* the second _current_package_is_installed of _install_current_package
InstallConfirm ==
    /\ pc = "install_confirm"
    /\ log' = Append(log, InfoEntry)
    /\ IF InfoEntry.ans
       THEN /\ Changed("Package installed: " \o current_package)
            /\ pc' = "_install_packages"
       ELSE Fatal(Strip(LastErr))
    /\ ForgetLocals
    /\ UNCHANGED <<reqVars, worldVars, current_package, i, result>>

(***************************************************************************)
(* state = upgraded                                                        *)
(***************************************************************************)
UpgradePackages == LoopHead("_upgrade_packages", "_upgrade_current_package")

\* _current_package_is_installed() and not _current_package_is_outdated():
\* the entries it logs (the second call only when the first is true)
UpgradedEntries ==
    IF InfoEntry.ans THEN <<InfoEntry, OutdatedEntry>> ELSE <<InfoEntry>>

IsUpgraded == InfoEntry.ans /\ ~OutdatedEntry.ans

\* UpgradeCurrentPackage without `command = 'install'` for a missing package
UpgradeCurrentPackage_AlwaysUpgrade ==
    /\ pc = "_upgrade_current_package"
    /\ log' = log \o <<InfoEntry>> \o UpgradedEntries
    /\ IF IsUpgraded
       THEN /\ Unchanged("Package is already upgraded: " \o current_package)
            /\ pc' = "_upgrade_packages"
            /\ UNCHANGED command
       ELSE IF check_mode
            THEN /\ WouldChange("Package would be upgraded: " \o current_package)
                 /\ UNCHANGED command
            ELSE /\ command' = "upgrade"
                 /\ pc' = "upgrade"
                 /\ UNCHANGED statusVars
    /\ UNCHANGED <<reqVars, worldVars, current_package, i, new_env, result>>

\* _upgrade_current_package up to the install/upgrade command
UpgradeCurrentPackage ==
    /\ pc = "_upgrade_current_package"
    /\ log' = log \o <<InfoEntry>> \o UpgradedEntries
    /\ IF IsUpgraded
       THEN /\ Unchanged("Package is already upgraded: " \o current_package)
            /\ pc' = "_upgrade_packages"
            /\ UNCHANGED command
       ELSE IF check_mode
            THEN /\ WouldChange("Package would be upgraded: " \o current_package)
                 /\ UNCHANGED command
            ELSE /\ command' = IF ~InfoEntry.ans THEN "install" ELSE "upgrade"
                 /\ pc' = "upgrade"
                 /\ UNCHANGED statusVars
    /\ UNCHANGED <<reqVars, worldVars, current_package, i, new_env, result>>

\* the install/upgrade command of _upgrade_current_package
UpgradeCommand ==
    /\ pc = "upgrade"
    /\ \E r \in {0, 1}, ok \in BOOLEAN : \E e \in ErrTexts(r) :
        /\ log' = Append(log, Entry(command,
                     Words(DropEmpty(<<brew_path, command>> \o install_options
                        \o <<current_package>>)),
                     i, r, e, FALSE))
        /\ installed' = IF ok THEN installed \cup {current_package} ELSE installed
        /\ outdated' = IF ok THEN outdated \ {current_package} ELSE outdated
    /\ pc' = "upgrade_confirm"
    /\ UNCHANGED <<reqVars, statusVars, envs, current_package, i,
                   command, new_env, result>>

\* UpgradeConfirm trusting the exit code instead of the second queries
UpgradeConfirm_ByExitCode ==
    /\ pc = "upgrade_confirm"
    /\ log' = log \o UpgradedEntries
    /\ IF log[Len(log)].rc = 0
       THEN /\ Changed("Package upgraded: " \o current_package)
            /\ pc' = "_upgrade_packages"
       ELSE Fatal(Strip(LastErr))
    /\ ForgetLocals
    /\ UNCHANGED <<reqVars, worldVars, current_package, i, result>>

UpgradeConfirm ==
    /\ pc = "upgrade_confirm"
    /\ log' = log \o UpgradedEntries
    /\ IF IsUpgraded
       THEN /\ Changed("Package upgraded: " \o current_package)
            /\ pc' = "_upgrade_packages"
       ELSE Fatal(Strip(LastErr))
    /\ ForgetLocals
    /\ UNCHANGED <<reqVars, worldVars, current_package, i, result>>

(***************************************************************************)
(* state = absent                                                          *)
(***************************************************************************)
UninstallPackages == LoopHead("_uninstall_packages", "_uninstall_current_package")

\* UninstallCurrentPackage without the test of _current_package_is_installed
UninstallCurrentPackage_AlwaysUninstalls ==
    /\ pc = "_uninstall_current_package"
    /\ log' = Append(log, InfoEntry)
    /\ IF check_mode
       THEN WouldChange("Package would be uninstalled: " \o current_package)
       ELSE /\ pc' = "uninstall"
            /\ UNCHANGED statusVars
    /\ UNCHANGED <<reqVars, worldVars, localVars, result>>

UninstallCurrentPackage ==
    /\ pc = "_uninstall_current_package"
    /\ log' = Append(log, InfoEntry)
    /\ IF ~InfoEntry.ans
       THEN /\ Unchanged("Package already uninstalled: " \o current_package)
            /\ pc' = "_uninstall_packages"
       ELSE IF check_mode
            THEN WouldChange("Package would be uninstalled: " \o current_package)
            ELSE /\ pc' = "uninstall"
                 /\ UNCHANGED statusVars
    /\ UNCHANGED <<reqVars, worldVars, localVars, result>>

UninstallCommand ==
    /\ pc = "uninstall"
    /\ \E r \in {0, 1}, ok \in BOOLEAN : \E e \in ErrTexts(r) :
        /\ log' = Append(log, Entry("uninstall",
                     Words(DropEmpty(<<brew_path, "uninstall">> \o install_options
                        \o <<current_package>>)),
                     i, r, e, FALSE))
        /\ installed' = IF ok THEN installed \ {current_package} ELSE installed
        /\ outdated' = IF ok THEN outdated \ {current_package} ELSE outdated
    /\ pc' = "uninstall_confirm"
    /\ UNCHANGED <<reqVars, statusVars, envs, current_package, i,
                   command, new_env, result>>

\* UninstallConfirm trusting the exit code instead of the second query
UninstallConfirm_ByExitCode ==
    /\ pc = "uninstall_confirm"
    /\ log' = Append(log, InfoEntry)
    /\ IF log[Len(log)].rc = 0
       THEN /\ Changed("Package uninstalled: " \o current_package)
            /\ pc' = "_uninstall_packages"
       ELSE Fatal(Strip(LastErr))
    /\ ForgetLocals
    /\ UNCHANGED <<reqVars, worldVars, current_package, i, result>>

UninstallConfirm ==
    /\ pc = "uninstall_confirm"
    /\ log' = Append(log, InfoEntry)
    /\ IF ~InfoEntry.ans
       THEN /\ Changed("Package uninstalled: " \o current_package)
            /\ pc' = "_uninstall_packages"
       ELSE Fatal(Strip(LastErr))
    /\ ForgetLocals
    /\ UNCHANGED <<reqVars, worldVars, current_package, i, result>>

(***************************************************************************)
(* state = linked, unlinked                                                *)
(***************************************************************************)
LinkPackages == LoopHead("_link_packages", "_link_current_package")

\* _link_current_package / _unlink_current_package up to the command
LinkPrecheck_CheckModeFirst(here, verb, cmdpc) ==
    /\ pc = here
    /\ log' = Append(log, InfoEntry)
    /\ IF check_mode
       THEN WouldChange("Package would be " \o verb \o "ed: " \o current_package)
       ELSE IF ~InfoEntry.ans
            THEN Fatal("Package not installed: " \o current_package \o ".")
            ELSE /\ pc' = cmdpc
                 /\ UNCHANGED statusVars
    /\ UNCHANGED <<reqVars, worldVars, localVars, result>>

LinkPrecheck(here, verb, cmdpc) ==
    /\ pc = here
    /\ log' = Append(log, InfoEntry)
    /\ IF ~InfoEntry.ans
       THEN Fatal("Package not installed: " \o current_package \o ".")
       ELSE IF check_mode
            THEN WouldChange("Package would be " \o verb \o "ed: " \o current_package)
            ELSE /\ pc' = cmdpc
                 /\ UNCHANGED statusVars
    /\ UNCHANGED <<reqVars, worldVars, localVars, result>>

\* the link/unlink command and the test of its exit code
LinkCommand(here, verb, loop) ==
    /\ pc = here
    /\ \E r \in {0, 1} : \E e \in ErrTexts(r) :
        /\ log' = Append(log, Entry(verb,
                     Words(DropEmpty(<<brew_path, verb>> \o install_options
                        \o <<current_package>>)),
                     i, r, e, FALSE))
        /\ IF r = 0
           THEN /\ Changed("Package " \o verb \o "ed: " \o current_package)
                /\ pc' = loop
           ELSE Fatal("Package could not be " \o verb \o "ed: "
                        \o current_package \o ".")
    /\ UNCHANGED <<reqVars, worldVars, localVars, result>>

LinkCurrentPackage == LinkPrecheck("_link_current_package", "link", "link")
LinkCurrentCommand == LinkCommand("link", "link", "_link_packages")

UnlinkPackages == LoopHead("_unlink_packages", "_unlink_current_package")
UnlinkCurrentPackage == LinkPrecheck("_unlink_current_package", "unlink", "unlink")
UnlinkCurrentCommand == LinkCommand("unlink", "unlink", "_unlink_packages")

(***************************************************************************)
(* conda.py                                                                *)
(***************************************************************************)
\* CondaDispatch without `if self.packages:`
CondaDispatch_IgnoresEmptyList ==
    CASE state = "present"    -> "conda_install_packages"
      [] state = "absent"     -> "conda_uninstall_packages"
      [] state = "remove_env" -> "_remove_environment"

\* the branch of Conda._run on self.packages and self.state
CondaDispatch ==
    IF packages = <<>> THEN "run"
    ELSE CASE state = "present"    -> "conda_install_packages"
           [] state = "absent"     -> "conda_uninstall_packages"
           [] state = "remove_env" -> "_remove_environment"

\* Conda._run up to its first call
CondaRun ==
    /\ pc = "_run"
    /\ variant = "conda"
    /\ IF update_only /\ ~update_conda
       THEN Fatal("Unsupported conda version. Please update first.")
       ELSE /\ pc' = IF update_conda THEN "_update_conda" ELSE CondaDispatch
            /\ UNCHANGED statusVars
    /\ UNCHANGED <<reqVars, worldVars, localVars, log, result>>

\* re.search(r'All requested packages already installed', s.strip(),
\* re.IGNORECASE) on a line
AlreadyInstalledLine(line) ==
    line \in {"# All requested packages already installed.",
              "# ALL REQUESTED PACKAGES ALREADY INSTALLED."}

already_updated(out) == \E n \in 1..Len(out) : AlreadyInstalledLine(out[n])

\* command[:2] + extra + command[2:]
InsertAfter2(cmd, extra) ==
    SubSeq(cmd, 1, IF Len(cmd) < 2 THEN Len(cmd) ELSE 2) \o extra
        \o SubSeq(cmd, 3, Len(cmd))

\* self.channels.strip().split()
SplitWords(text) == SelectSeq(text, LAMBDA w : w \notin Whitespace)

RECURSIVE ChannelPairs(_)
ChannelPairs(cs) ==
    IF cs = <<>> THEN <<>>
    ELSE <<<<"--channel">>, <<Head(cs)>>>> \o ChannelPairs(Tail(cs))

_add_channels_to_command(cmd) ==
    IF channels # <<>>
    THEN InsertAfter2(cmd, ChannelPairs(SplitWords(channels)))
    ELSE cmd

_add_environment_to_command(cmd) ==
    IF environment # ""
    THEN InsertAfter2(cmd, <<<<"--name">>, <<environment>>>>)
    ELSE cmd

UpdateConda ==
    /\ pc = "_update_conda"
    /\ \E r \in {0, 1}, out \in CondaOuts : \E e \in ErrTexts(r) :
        /\ log' = Append(log, Entry("conda_update",
                     _add_environment_to_command(
                        Words(<<conda_path, "update -y -n root conda">>)),
                     0, r, e, already_updated(out)))
        /\ IF r = 0
           THEN /\ IF out # <<>>
                   THEN IF ~already_updated(out)
                        THEN Changed("Conda updated successfully.")
                        ELSE Unchanged("Conda already up-to-date.")
                   ELSE UNCHANGED statusVars
                /\ pc' = CondaDispatch
           ELSE Fatal(Strip(e))
    /\ UNCHANGED <<reqVars, worldVars, localVars, result>>

\* stdout of the environment listing, as lines
EnvListOut == IF "env1" \in envs THEN <<"root", "env1", "">> ELSE <<"root", "">>

\* the run_command call of _environment_exists
EnvListEntry(r, e) ==
    Entry("env_list", Words(<<conda_path, "env list | awk '{print $1}'">>), 0, r, e,
          r = 0 /\ \E n \in 1..Len(EnvListOut) : environment = EnvListOut[n])

\* _environment_exists as called from `caller`; `found` and `missing` are
\* what the caller does with the answer
EnvironmentExists(found, missing) ==
    IF ~conda_valid_environment(environment)
    THEN /\ Fatal("Invalid environment name: " \o environment)
         /\ UNCHANGED <<log, new_env>>
    ELSE \E r \in {0, 1} : \E e \in ErrTexts(r) :
            /\ log' = Append(log, EnvListEntry(r, e))
            /\ IF r # 0
               THEN /\ Fatal(Strip(e))
                    /\ UNCHANGED new_env
               ELSE IF EnvListEntry(r, e).ans THEN found ELSE missing

\* CondaInstallPackages without `new_env = True` and the create branch
CondaInstallPackages_NeverCreates ==
    /\ pc = "conda_install_packages"
    /\ IF environment # ""
       THEN EnvironmentExists(
                /\ new_env' = FALSE
                /\ pc' = "conda_install"
                /\ UNCHANGED statusVars,
                /\ new_env' = FALSE
                /\ pc' = "conda_install"
                /\ UNCHANGED statusVars)
       ELSE /\ pc' = "conda_install"
            /\ UNCHANGED <<statusVars, log, new_env>>
    /\ UNCHANGED <<reqVars, worldVars, current_package, i, command, result>>

\* Conda._install_packages up to the install/create command
CondaInstallPackages ==
    /\ pc = "conda_install_packages"
    /\ IF environment # ""
       THEN EnvironmentExists(
                /\ new_env' = FALSE
                /\ pc' = "conda_install"
                /\ UNCHANGED statusVars,
                /\ new_env' = TRUE
                /\ pc' = "conda_install"
                /\ UNCHANGED statusVars)
       ELSE /\ pc' = "conda_install"
            /\ UNCHANGED <<statusVars, log, new_env>>
    /\ UNCHANGED <<reqVars, worldVars, current_package, i, command, result>>

\* cmd as built by _install_packages
InstallCmd ==
    _add_channels_to_command(
        <<<<conda_path>>>>
        \o (IF environment = "" THEN <<>>
            ELSE IF new_env THEN <<<<"create", "-y", "-n", environment>>>>
                 ELSE <<<<"install", "-y", "-n ", environment>>>>)
        \o Words(packages))

\* the install/create command of Conda._install_packages and what follows
CondaInstallCommand ==
    /\ pc = "conda_install"
    /\ \E r \in {0, 1}, out \in CondaOuts, ok \in BOOLEAN : \E e \in ErrTexts(r) :
        /\ log' = Append(log, Entry(IF new_env THEN "create" ELSE "install",
                                    InstallCmd, 0, r, e, already_updated(out)))
        /\ envs' = IF new_env /\ ok THEN envs \cup {environment} ELSE envs
        /\ IF r = 0
           THEN /\ IF out # <<>>
                   THEN IF ~already_updated(out)
                        THEN IF new_env
                             THEN Changed("Conda environment created successfully.")
                             ELSE Changed("Conda environment updated successfully")
                        ELSE Unchanged("Conda environment already set up")
                   ELSE UNCHANGED statusVars
                /\ pc' = "run"
           ELSE Fatal(Strip(e))
    /\ new_env' = FALSE
    /\ UNCHANGED <<reqVars, installed, outdated, current_package, i, command,
                   result>>

\* _uninstall_packages / _remove_environment up to the remove command
RemovePrecheck(here, cmdpc, notfound, noenv) ==
    /\ pc = here
    /\ IF environment # ""
       THEN EnvironmentExists(
                /\ pc' = cmdpc
                /\ UNCHANGED <<statusVars, new_env>>,
                /\ Unchanged(notfound)
                /\ pc' = "run"
                /\ UNCHANGED new_env)
       ELSE /\ Fatal(noenv)
            /\ UNCHANGED <<log, new_env>>
    /\ UNCHANGED <<reqVars, worldVars, current_package, i, command, result>>

\* RemoveCommand without the test of rc
RemoveCommand_IgnoresExitCode(here, done) ==
    /\ pc = here
    /\ \E r \in {0, 1}, ok \in BOOLEAN : \E e \in ErrTexts(r) :
        /\ log' = Append(log, Entry("remove",
                     Words(<<conda_path, "remove", "-y", "-n", environment>>),
                     0, r, e, FALSE))
        /\ envs' = IF ok THEN envs \ {environment} ELSE envs
        /\ Changed(done)
        /\ pc' = "run"
    /\ UNCHANGED <<reqVars, installed, outdated, localVars, result>>

\* the remove command of _uninstall_packages / _remove_environment
RemoveCommand(here, done) ==
    /\ pc = here
    /\ \E r \in {0, 1}, ok \in BOOLEAN : \E e \in ErrTexts(r) :
        /\ log' = Append(log, Entry("remove",
                     Words(<<conda_path, "remove", "-y", "-n", environment>>),
                     0, r, e, FALSE))
        /\ envs' = IF ok THEN envs \ {environment} ELSE envs
        /\ IF r = 0
           THEN /\ Changed(done)
                /\ pc' = "run"
           ELSE Fatal(Strip(e))
    /\ UNCHANGED <<reqVars, installed, outdated, localVars, result>>

CondaUninstallPackages ==
    RemovePrecheck("conda_uninstall_packages", "conda_uninstall",
                   "Environment not found",
                   "No environment passed to remove packages from")

CondaUninstallCommand ==
    RemoveCommand("conda_uninstall",
                  "Conda packages successfully removed from environment")

RemoveEnvironment ==
    RemovePrecheck("_remove_environment", "remove_env",
                   "Environment for removal not found",
                   "No environment passed for removal")

RemoveEnvironmentCommand ==
    RemoveCommand("remove_env", "Conda environment successfully removed")

(***************************************************************************)
(* run(): the epilogue after _run returned or raised                       *)
(***************************************************************************)
\* RunReturn without `not self.failed` in the test for the summary
RunReturn_SummaryWhenFailed ==
    /\ pc = "run"
    /\ message' = IF changed_count + unchanged_count > 1
                  THEN SummaryMessage(changed_count, unchanged_count)
                  ELSE message
    /\ result' = <<failed, changed, message'>>
    /\ pc' = "done"
    /\ UNCHANGED <<reqVars, worldVars, localVars, log,
                   failed, changed, changed_count, unchanged_count>>

\* RunReturn that computes the triple and does not return it
RunReturn_NeverReturns ==
    /\ pc = "run"
    /\ message' = IF ~failed /\ changed_count + unchanged_count > 1
                  THEN SummaryMessage(changed_count, unchanged_count)
                  ELSE message
    /\ result' = <<failed, changed, message'>>
    /\ pc' = "run"
    /\ UNCHANGED <<reqVars, worldVars, localVars, log,
                   failed, changed, changed_count, unchanged_count>>

RunReturn ==
    /\ pc = "run"
    /\ message' = IF ~failed /\ changed_count + unchanged_count > 1
                  THEN SummaryMessage(changed_count, unchanged_count)
                  ELSE message
    /\ result' = <<failed, changed, message'>>
    /\ pc' = "done"
    /\ UNCHANGED <<reqVars, worldVars, localVars, log,
                   failed, changed, changed_count, unchanged_count>>

\* the desired states for which a second invocation is followed
RerunStates == {"absent"}

\* main() entered again with the same parameters after a run that neither
\* failed nor was a dry run: a new Linuxbrew object (_setup_status_vars)
\* over the package manager's state as the first run left it
MainAgain ==
    /\ pc = "done"
    /\ variant = "brew"
    /\ state \in RerunStates
    /\ ~failed /\ ~check_mode
    /\ runs < MaxRuns
    /\ runs' = runs + 1
    /\ failed' = FALSE
    /\ changed' = FALSE
    /\ changed_count' = 0
    /\ unchanged_count' = 0
    /\ message' = ""
    /\ current_package' = ""
    /\ i' = 0
    /\ command' = ""
    /\ new_env' = FALSE
    /\ log' = <<>>
    /\ result' = <<>>
    /\ pc' = "_run"
    /\ UNCHANGED <<variant, packages, state, update_linuxbrew, upgrade_all,
                   install_options, environment, channels, update_conda,
                   update_only, conda_info, candidate, check_mode, worldVars>>

Next ==
    \/ Run_
    \/ UpdateLinuxbrew
    \/ UpgradeAll
    \/ InstallPackages
    \/ InstallCurrentPackage
    \/ InstallCommand
    \/ InstallConfirm
    \/ UpgradePackages
    \/ UpgradeCurrentPackage
    \/ UpgradeCommand
    \/ UpgradeConfirm
    \/ UninstallPackages
    \/ UninstallCurrentPackage
    \/ UninstallCommand
    \/ UninstallConfirm
    \/ LinkPackages
    \/ LinkCurrentPackage
    \/ LinkCurrentCommand
    \/ UnlinkPackages
    \/ UnlinkCurrentPackage
    \/ UnlinkCurrentCommand
    \/ CondaRun
    \/ UpdateConda
    \/ CondaInstallPackages
    \/ CondaInstallCommand
    \/ CondaUninstallPackages
    \/ CondaUninstallCommand
    \/ RemoveEnvironment
    \/ RemoveEnvironmentCommand
    \/ RunReturn
    \/ MainAgain

Spec == Init /\ [][Next]_vars

\* a step of the invocation under way: every module.run_command call
\* returns and the interpreter goes on to the next statement
RunStep == Next /\ runs' = runs

FairSpec == Init /\ [][Next]_vars /\ WF_vars(RunStep)

(***************************************************************************)
(* Properties                                                              *)
(***************************************************************************)
LogIdx == 1..Len(log)
IsBrew == variant = "brew"
IsConda == variant = "conda"
Mutating(e) == e.op \in MutatingOps
Discovery(e) == e.op \in {"info", "outdated", "env_list"}

\* C1: brew, state installed, dry run: once discovery reports a package as
\* not installed, changed is true, no install command exists for that
\* package and that query is the last external command of the run (so none
\* is issued for any later package).
C1_DryRunShortCircuit ==
    (IsBrew /\ state = "installed" /\ check_mode) =>
        \A n \in LogIdx :
            (log[n].op = "info" /\ ~log[n].ans) =>
                /\ changed
                /\ \A m \in LogIdx :
                      /\ ~(log[m].op = "install" /\ log[m].idx = log[n].idx)
                      /\ log[m].idx <= log[n].idx
                /\ n = Len(log)

C1_Witness ==
    /\ IsBrew /\ state = "installed" /\ check_mode
    /\ pc = "done"
    /\ Len(packages) = 3
    /\ log # <<>>
    /\ log[Len(log)].op = "info" /\ ~log[Len(log)].ans /\ log[Len(log)].idx = 2
    /\ result[2] = TRUE

\* C2 as stated: brew, state installed, one package that the first query
\* reports installed: no mutating command, failed=false, changed=false,
\* unchangedCount=1, changedCount=0.
AlreadyInstalledSingle ==
    /\ IsBrew /\ state = "installed" /\ Len(packages) = 1
    /\ pc = "done"
    /\ \E n \in LogIdx : log[n].op = "info" /\ log[n].idx = 1 /\ log[n].ans
          /\ \A m \in 1..(n - 1) : log[m].idx = 0

IdempotentOutcome ==
    /\ \A n \in LogIdx : ~Mutating(log[n])
    /\ result[1] = FALSE /\ result[2] = FALSE
    /\ unchanged_count = 1 /\ changed_count = 0

C2_Original == AlreadyInstalledSingle => IdempotentOutcome

\* C2 amended: the same, for runs that request neither the self-update nor
\* upgrade-all.
C2_Idempotence ==
    (AlreadyInstalledSingle /\ ~update_linuxbrew /\ ~upgrade_all)
        => IdempotentOutcome

C2_Witness ==
    /\ AlreadyInstalledSingle /\ ~update_linuxbrew /\ ~upgrade_all
    /\ ~check_mode
    /\ Len(log) = 1
    /\ result = <<FALSE, FALSE, "Package already installed: foo">>

\* C3: brew, state absent, not dry run: every uninstall command is followed
\* by a discovery query for the same package; once that query is made the
\* run has failed if it reports installed, and changedCount is the number of
\* uninstall commands whose following query reports not installed (changed
\* being true when there is one).
UninstallsConfirmed ==
    {n \in LogIdx : /\ log[n].op = "uninstall"
                    /\ n < Len(log)
                    /\ ~log[n + 1].ans}

C3_UninstallConvergence ==
    (IsBrew /\ state = "absent" /\ ~check_mode) =>
        /\ \A n \in LogIdx :
              (log[n].op = "uninstall") =>
                 /\ n > 1 /\ log[n - 1].op = "info" /\ log[n - 1].ans
                 /\ log[n - 1].idx = log[n].idx
                 /\ n = Len(log) => pc = "uninstall_confirm"
                 /\ n < Len(log) =>
                       /\ log[n + 1].op = "info"
                       /\ log[n + 1].idx = log[n].idx
                       /\ log[n + 1].argv[3] = <<packages[log[n].idx]>>
                       /\ log[n + 1].ans => failed
                       /\ ~log[n + 1].ans => changed
        /\ changed_count = Cardinality(UninstallsConfirmed)
        /\ pc = "done" =>
              /\ UninstallsConfirmed # {} => result[2] = TRUE
              /\ (\E n \in LogIdx : log[n].op = "uninstall" /\ log[n + 1].ans)
                    => result[1] = TRUE

C3_Witness ==
    /\ IsBrew /\ state = "absent" /\ ~check_mode
    /\ pc = "done"
    /\ Len(log) = 3
    /\ log[2].op = "uninstall" /\ log[2].rc # 0
    /\ log[3].op = "info" /\ ~log[3].ans
    /\ result[2] = TRUE /\ changed_count = 1

\* C4: once failed is true no further external command is issued, the two
\* counters keep their values, failed stays true and run() returns
\* failed=true.
C4_FatalAbort ==
    [][failed =>
          /\ log' = log
          /\ changed_count' = changed_count
          /\ unchanged_count' = unchanged_count
          /\ failed'
          /\ (pc' = "done" => result'[1] = TRUE)]_vars

C4_Witness ==
    /\ IsBrew /\ pc = "done" /\ failed
    /\ Len(packages) = 3 /\ i = 2
    /\ changed_count + unchanged_count = 1
    /\ Len(log) >= 2
    /\ log[Len(log) - 1].op = "install" /\ log[Len(log) - 1].idx = 2
    /\ log[Len(log) - 1].rc # 0
    /\ result = <<TRUE, TRUE, "Err">>

(***************************************************************************)
(* Units of work                                                           *)
(***************************************************************************)
\* the self-update commands that returned exit code 0
SelfUpdatesDone ==
    Cardinality({n \in LogIdx : log[n].op \in {"update", "conda_update"}
                                 /\ log[n].rc = 0})

\* the packages of a finished brew run whose handler returned: in a dry run
\* a handler returns only by recording the package unchanged, otherwise
\* every package the loop reached returned unless the run failed
BrewPackagesDone ==
    IF check_mode THEN unchanged_count
    ELSE IF failed THEN i - 1 ELSE i

\* the install/create or remove step of a finished conda run, if it ran
\* to its end: its command returned exit code 0, or the removal found the
\* environment absent
CondaStepsDone ==
    Cardinality({n \in LogIdx :
        \/ log[n].op \in {"install", "create", "remove"} /\ log[n].rc = 0
        \/ /\ log[n].op = "env_list" /\ log[n].rc = 0 /\ ~log[n].ans
           /\ state \in {"absent", "remove_env"}})

UnitsDone ==
    SelfUpdatesDone + (IF IsBrew THEN BrewPackagesDone ELSE CondaStepsDone)

\* C5: at the end of a run in which more than one unit of work ran and that
\* did not fail, the returned message is "Changed: c, Unchanged: u" with the
\* two counters.
C5_SummaryMessage ==
    (pc = "done" /\ ~failed /\ UnitsDone > 1) =>
        result[3] = SummaryMessage(changed_count, unchanged_count)

\* C6: with dry-run set no mutating external command is ever issued.
C6_DryRunNeverMutates ==
    check_mode => \A n \in LogIdx : ~Mutating(log[n])

(***************************************************************************)
(* Exit codes and the second query                                         *)
(***************************************************************************)
ConfirmPcs == {"install_confirm", "upgrade_confirm", "uninstall_confirm"}

\* the step that decides on the command log[n] has been taken
StepComplete(n) == n < Len(log) \/ pc \notin ConfirmPcs

Appended == SubSeq(log', Len(log) + 1, Len(log'))

\* the commands whose exit code is tested by the step that issues them
ExitCodeTested(e) ==
    \/ e.op \in {"update", "upgrade_all", "conda_update", "create", "remove"}
    \/ IsConda /\ e.op = "install"

\* the answer of the queries re-run after a brew install, upgrade or
\* uninstall command shows the state the command was to bring about
ExpectedAfter ==
    LET last == log'[Len(log')]
    IN  CASE pc = "install_confirm"   -> last.op = "info" /\ last.ans
          [] pc = "upgrade_confirm"   -> last.op = "outdated" /\ ~last.ans
          [] pc = "uninstall_confirm" -> last.op = "info" /\ ~last.ans
          [] OTHER -> FALSE

FlippedQuery ==
    /\ Len(log') > Len(log)
    /\ \A k \in 1..Len(Appended) : Discovery(Appended[k])
    /\ \E k \in 1..Len(Appended), m \in LogIdx :
          /\ log[m].op = Appended[k].op
          /\ log[m].argv = Appended[k].argv
          /\ log[m].idx = Appended[k].idx
          /\ log[m].ans # Appended[k].ans

C8_Original ==
    [][changed_count' = changed_count + 1 => changed' /\ FlippedQuery]_vars

\* C8 amended: for brew install (also head), upgrade and uninstall a unit is
\* recorded as changed only by the step that re-runs the discovery queries
\* after the command, and only if their answer flipped in the expected
\* direction, whatever the command's exit code; brew link and unlink and
\* every conda action are recorded as changed by the step that issues the
\* command, on its exit code 0, with no second query.
C8_ChangedNeedsConfirmation ==
    [][changed_count' = changed_count + 1 =>
          /\ changed'
          /\ IF pc \in ConfirmPcs
             THEN FlippedQuery /\ ExpectedAfter
             ELSE /\ Len(log') = Len(log) + 1
                  /\ log'[Len(log')].rc = 0
                  /\ \/ log'[Len(log')].op \in {"link", "unlink"}
                     \/ IsConda /\ Mutating(log'[Len(log')])
      ]_vars

C8_Witness ==
    /\ IsBrew /\ state = "upgraded" /\ pc = "done"
    /\ Len(log) = 6
    /\ log[4].op = "upgrade" /\ log[4].rc # 0
    /\ log[3].op = "outdated" /\ log[3].ans
    /\ log[6].op = "outdated" /\ ~log[6].ans
    /\ result[1] = FALSE /\ result[2] = TRUE /\ changed_count = 1

(***************************************************************************)
(* Validation                                                              *)
(***************************************************************************)
\* the strings of an argument vector
ArgItems(e) ==
    UNION {{e.argv[k][j] : j \in 1..Len(e.argv[k])} : k \in 1..Len(e.argv)}

\* the character class of a channel name: the identifier class without the
\* characters that are for packages only
CHANNEL_CHARS == CONDA_VALID_ENV_CHARS \cup {"/"}

\* the identifiers of the request that fail their validator
RejectedIds ==
    {packages[k] : k \in {j \in 1..Len(packages) :
        IF IsBrew THEN ~brew_valid_package(packages[j])
                  ELSE ~conda_valid_package(packages[j])}}
    \cup {n \in {environment} : n # "" /\ ~conda_valid_environment(n)}
    \cup {SplitWords(channels)[k] : k \in {j \in 1..Len(SplitWords(channels)) :
        InvalidSearch(Chars(SplitWords(channels)[j]), CHANNEL_CHARS)}}

\* C9: no external command has an argument that is a package identifier,
\* channel name or environment name failing its validator.
C9_NoRejectedIdInCommand ==
    \A n \in LogIdx : ArgItems(log[n]) \cap RejectedIds = {}

\* C10: if some package identifier of a brew batch is invalid, no external
\* command is issued for any package of the batch and the run fails.
C10_InvalidBatchNoCommand ==
    (IsBrew /\ \E k \in 1..Len(packages) : ~brew_valid_package(packages[k])) =>
        /\ \A n \in LogIdx : log[n].idx = 0
        /\ pc = "done" => result[1] = TRUE

(***************************************************************************)
(* Counters                                                                *)
(***************************************************************************)
\* C11: at the end of a run that neither failed nor was a dry run, the two
\* counters add up to the number of units of work that ran (packages,
\* environment operations, self-updates).
C11_CountersCoverUnits ==
    (pc = "done" /\ ~failed /\ ~check_mode) =>
        changed_count + unchanged_count = UnitsDone

(***************************************************************************)
(* The version gate                                                        *)
(***************************************************************************)
\* C12: conda, tool flagged update-only: without the self-update the run
\* fails before any command; with it the self-update command is the first
\* command and no install, create or remove command is issued.
C12_UpdateOnlyRefuses ==
    (IsConda /\ update_only) =>
        /\ ~update_conda =>
              /\ log = <<>>
              /\ pc # "_run" => failed
        /\ update_conda =>
              /\ pc \notin {"_run", "_update_conda"} =>
                    log # <<>> /\ log[1].op = "conda_update"
              /\ \A n \in LogIdx :
                    log[n].op \notin {"install", "create", "remove"}

\* the first component of v that differs from the minimum is below it
RECURSIVE BelowMinimum(_, _)
BelowMinimum(v, min) ==
    IF v = <<>> \/ min = <<>> THEN FALSE
    ELSE IF Num(Head(v)) < Head(min) THEN TRUE
    ELSE IF Num(Head(v)) > Head(min) THEN FALSE
    ELSE BelowMinimum(Tail(v), Tail(min))

\* C13: for a reported version of two or three numeric components the
\* constructor returns with update_only true iff the first component that
\* differs from the minimum (4, 0, 11) is below it, a missing patch
\* component being accepted.
C13_VersionGate ==
    (/\ pc \in {"constructed", "IndexError"}
     /\ conda_info.name = "conda"
     /\ Len(conda_info.version) \in {2, 3}) =>
        /\ pc = "constructed"
        /\ update_only = BelowMinimum(conda_info.version, <<4, 0, 11>>)

(***************************************************************************)
(* The dispatch table                                                      *)
(***************************************************************************)
\* C14: brew, state head, not a dry run: at the end of a run that did not
\* fail every package of the batch has an install command with --HEAD.
C14_HeadAlwaysInstalls ==
    (IsBrew /\ state = "head" /\ ~check_mode /\ pc = "done" /\ ~failed) =>
        \A k \in 1..Len(packages) :
            \E n \in LogIdx :
                /\ log[n].op = "install"
                /\ log[n].idx = k
                /\ log[n].argv[Len(log[n].argv)] = <<"--HEAD">>
                /\ <<packages[k]>> \in {log[n].argv[j] : j \in 1..Len(log[n].argv)}

\* C15: brew, state upgraded, not a dry run, per package: the queries made
\* before the command decide it: not installed, the command issued next is
\* install; installed and outdated, it is upgrade; installed and not
\* outdated, no command is issued, unchangedCount grows by one and changed
\* and changedCount keep their values.
C15_UpgradeDispatch ==
    [][/\ (pc = "_upgrade_current_package" /\ ~check_mode) =>
            LET isInstalled == Appended[1].op = "info" /\ Appended[1].ans
                isOutdated == /\ Len(Appended) = 3
                              /\ Appended[3].op = "outdated"
                              /\ Appended[3].ans
            IN  /\ \A k \in 1..Len(Appended) :
                      Discovery(Appended[k]) /\ Appended[k].idx = i
                /\ ~isInstalled => pc' = "upgrade" /\ command' = "install"
                /\ (isInstalled /\ isOutdated) =>
                      pc' = "upgrade" /\ command' = "upgrade"
                /\ (isInstalled /\ ~isOutdated) =>
                      /\ pc' = "_upgrade_packages"
                      /\ unchanged_count' = unchanged_count + 1
                      /\ changed' = changed
                      /\ changed_count' = changed_count
                      /\ failed' = failed
       /\ pc = "upgrade" =>
            /\ Len(Appended) = 1
            /\ Appended[1].op = command
            /\ Appended[1].idx = i
            /\ Appended[1].argv[2] = <<command>>
            /\ Appended[1].argv[Len(Appended[1].argv)] = <<packages[i]>>
       /\ pc = "_upgrade_packages" =>
            \A k \in 1..Len(Appended) : ~Mutating(Appended[k])
      ]_vars

C15_Witness ==
    /\ IsBrew /\ state = "upgraded" /\ ~check_mode /\ pc = "done"
    /\ Len(packages) = 3
    /\ result[1] = FALSE
    /\ changed_count = 2 /\ unchanged_count = 1
    /\ \E n \in LogIdx : log[n].op = "install" /\ log[n].idx = 1
    /\ \E n \in LogIdx : log[n].op = "upgrade" /\ log[n].idx = 2
    /\ \A n \in LogIdx : log[n].idx = 3 => ~Mutating(log[n])

\* C16: brew, state linked or unlinked: when the installed query answers no
\* for a package, the run fails without a link/unlink command for it and
\* without a change to either counter, in a dry run as in a real run; when
\* the package is installed and the link/unlink command exits 0, the unit is
\* recorded as changed (changed = TRUE, changedCount + 1).
C16_LinkNeedsInstalled ==
    [][/\ pc \in {"_link_current_package", "_unlink_current_package"} =>
            /\ Len(Appended) = 1
            /\ Appended[1].op = "info"
            /\ ~Appended[1].ans =>
                  /\ failed'
                  /\ pc' = "run"
                  /\ changed_count' = changed_count
                  /\ unchanged_count' = unchanged_count
            /\ Appended[1].ans =>
                  /\ failed' = failed
                  /\ pc' \in {"link", "unlink"} <=> ~check_mode
       /\ pc \in {"link", "unlink"} =>
            /\ Len(Appended) = 1
            /\ Appended[1].op = pc
            /\ log[Len(log)].op = "info" /\ log[Len(log)].ans
            /\ Appended[1].rc = 0 =>
                  /\ changed'
                  /\ changed_count' = changed_count + 1
                  /\ unchanged_count' = unchanged_count
                  /\ failed' = failed
      ]_vars

C16_Witness ==
    /\ IsBrew /\ state = "linked" /\ ~check_mode /\ pc = "done"
    /\ Len(packages) = 2
    /\ Len(log) = 3
    /\ log[1].op = "info" /\ log[1].ans
    /\ log[2].op = "link" /\ log[2].rc = 0
    /\ log[3].op = "info" /\ log[3].idx = 2 /\ ~log[3].ans
    /\ changed_count = 1 /\ unchanged_count = 0
    /\ result[1] = TRUE /\ result[2] = TRUE

\* C17: conda, state remove_env with a named environment: the removal step
\* runs once per run whether or not the package list is empty: one
\* environment query is made; if it finds the environment the removal
\* command is issued and its exit code 0 records changed = TRUE and
\* changedCount + 1; if it does not, no removal command is issued and the
\* run records unchangedCount + 1 with failed = FALSE.
C17_RemoveEnvRunsOnce ==
    (/\ IsConda /\ state = "remove_env" /\ pc = "done"
     /\ ~update_conda /\ ~update_only
     /\ environment # "" /\ conda_valid_environment(environment)) =>
        /\ log # <<>>
        /\ log[1].op = "env_list"
        /\ \A n \in LogIdx : log[n].op = "env_list" => n = 1
        /\ (log[1].rc = 0 /\ log[1].ans) =>
              /\ Len(log) = 2
              /\ log[2].op = "remove"
              /\ log[2].rc = 0 =>
                    changed /\ changed_count = 1 /\ ~failed
        /\ (log[1].rc = 0 /\ ~log[1].ans) =>
              /\ Len(log) = 1
              /\ unchanged_count = 1
              /\ ~failed /\ ~changed

\* C18: conda, state absent or remove_env: when the environment query
\* reports the named environment absent, no mutating command is issued,
\* failed and changed stay FALSE and unchangedCount grows by exactly one;
\* a removal request without an environment name is fatal.
C18_RemovalWithoutEnvironment ==
    (IsConda /\ state \in {"absent", "remove_env"} /\ pc = "done"
     /\ ~update_conda) =>
        /\ (/\ log # <<>>
            /\ log[Len(log)].op = "env_list"
            /\ log[Len(log)].rc = 0
            /\ ~log[Len(log)].ans) =>
              /\ \A n \in LogIdx : ~Mutating(log[n])
              /\ ~failed /\ ~changed
              /\ unchanged_count = 1 /\ changed_count = 0
        /\ environment = "" => failed

C20_MarkerDecides ==
    [][(/\ pc \in {"_update_conda", "conda_install"}
        /\ Len(Appended) = 1
        /\ Appended[1].op \in {"install", "create", "conda_update"}
        /\ Appended[1].rc = 0) =>
            /\ failed' = failed
            /\ Appended[1].ans =>
                  /\ unchanged_count' = unchanged_count + 1
                  /\ changed_count' = changed_count
                  /\ changed' = changed
            /\ ~Appended[1].ans =>
                  /\ changed'
                  /\ changed_count' = changed_count + 1
                  /\ unchanged_count' = unchanged_count
      ]_vars

\* C21: brew: the commands about package k of the list (its queries and
\* its mutating command) all come before every command about package k + 1:
\* along the sequence of calls the position of the package a call names
\* never goes back, a call names the package at that position of the input
\* list, and no call is about a package the loop has not reached.  The
\* calls are the entries of one sequence: each has returned before the next
\* is made.
C21_InputOrder ==
    IsBrew =>
        /\ \A n \in LogIdx :
              /\ log[n].idx \in 0..i
              /\ log[n].idx = 0 <=> log[n].op \in {"update", "upgrade_all"}
              /\ log[n].idx > 0 =>
                    \E j \in 3..Len(log[n].argv) :
                        /\ log[n].argv[j] = <<packages[log[n].idx]>>
                        /\ \A h \in (j + 1)..Len(log[n].argv) :
                              log[n].argv[h] = <<"--HEAD">>
        /\ \A m, n \in LogIdx : m < n => log[m].idx <= log[n].idx

C21_Witness ==
    /\ IsBrew /\ pc = "done" /\ ~failed
    /\ Len(packages) = 3
    /\ packages[1] # packages[2] /\ packages[2] # packages[3]
    /\ \A k \in 1..3 :
          \E m, n \in LogIdx :
              /\ m < n
              /\ Discovery(log[m]) /\ log[m].idx = k
              /\ Mutating(log[n]) /\ log[n].idx = k

\* C22: when the self-update is requested, its command is the first one of
\* the run: it comes before the upgrade-all command and before every
\* per-package or per-environment command, and when it exits non-zero no
\* later command is issued and the run has failed.
SelfUpdateRequested ==
    \/ IsBrew /\ update_linuxbrew
    \/ IsConda /\ update_conda

C22_SelfUpdateFirst ==
    /\ (SelfUpdateRequested /\ log # <<>>) =>
          /\ log[1].op \in {"update", "conda_update"}
          /\ log[1].op = "update" <=> IsBrew
          /\ \A n \in LogIdx : log[n].op \in {"update", "conda_update"} => n = 1
          /\ log[1].rc # 0 =>
                /\ Len(log) = 1
                /\ failed
                /\ pc \in {"run", "done"}
    /\ (SelfUpdateRequested /\ pc \notin {"_run", "_update_linuxbrew", "_update_conda"}) =>
          log # <<>>

C22_Witness ==
    /\ IsBrew /\ update_linuxbrew /\ upgrade_all /\ pc = "done"
    /\ Len(log) >= 4
    /\ log[1].op = "update" /\ log[1].rc = 0
    /\ log[2].op = "upgrade_all"
    /\ log[3].op = "info" /\ log[3].idx = 1
    /\ Mutating(log[4]) /\ log[4].idx = 1

\* C23: each validator returns true iff every character of the string is
\* in its documented class: brew valid_package alphanumerics, "_", ".",
\* "/", "+", "-" and ":" (so a string with ",", ";" or a space is
\* rejected); conda valid_package alphanumerics, "_", ".", "=" and "-";
\* conda valid_environment alphanumerics, "_", "." and "-".
Alphanumerics == {"a", "b", "e", "f", "i", "n", "o", "r", "v", "x", "y", "1"}

AllIn(cs, class) == \A n \in 1..Len(cs) : cs[n] \in class

C23_ValidatorsExact ==
    /\ pc = "Linuxbrew.valid_package" =>
          result[1] = AllIn(candidate,
                Alphanumerics \cup {"_", ".", "/", "+", "-", ":"})
    /\ pc = "Conda.valid_package" =>
          result[1] = AllIn(candidate, Alphanumerics \cup {"_", ".", "=", "-"})
    /\ pc = "Conda.valid_environment" =>
          result[1] = AllIn(candidate, Alphanumerics \cup {"_", ".", "-"})

\* C24: brew: when a dry run ends because a package would be changed, the
\* triple returned by run() has failed = FALSE, changed = TRUE and as its
\* message the would-be-changed message naming that package, whatever the
\* batch, batches with two or more earlier unchanged packages included.
WouldBeMessages(p) ==
    {"Package would be " \o verb \o ": " \o p :
        verb \in {"installed", "upgraded", "uninstalled", "linked", "unlinked"}}

DryRunAborted ==
    /\ IsBrew /\ check_mode /\ pc = "run" /\ ~failed
    /\ i \in 1..Len(packages)
    /\ message \in WouldBeMessages(packages[i])

C24_DryRunTriple ==
    [][DryRunAborted => (pc' = "done" /\ result' = <<FALSE, TRUE, message>>)]_vars

\* C25 as stated: brew, state absent: a package the installed query reports
\* as not installed gets no uninstall command and is recorded as unchanged
\* (unchangedCount + 1, changed and failed untouched), in a dry run as in a
\* real run; the same request run again after a first run that succeeded
\* issues no mutating command.
NotInstalledIsUnchanged ==
    (IsBrew /\ state = "absent" /\ pc = "_uninstall_current_package"
     /\ Len(Appended) = 1 /\ Appended[1].op = "info" /\ ~Appended[1].ans) =>
        /\ pc' = "_uninstall_packages"
        /\ unchanged_count' = unchanged_count + 1
        /\ changed_count' = changed_count
        /\ changed' = changed
        /\ failed' = failed

UninstallOnlyInstalled ==
    (IsBrew /\ state = "absent") =>
        \A n \in LogIdx :
            log[n].op = "uninstall" =>
                /\ n > 1
                /\ log[n - 1].op = "info" /\ log[n - 1].ans
                /\ log[n - 1].idx = log[n].idx

C25_Original ==
    [][/\ NotInstalledIsUnchanged
       /\ UninstallOnlyInstalled'
       /\ (IsBrew /\ state = "absent" /\ runs > 1) =>
             \A n \in 1..Len(log') : ~Mutating(log'[n])
      ]_vars

\* C25 amended: the second run issues no uninstall command, and no mutating
\* command at all when the request asks for neither the self-update nor
\* upgrade-all (which are issued again in every run that asks for them).
C25_AbsentIdempotent ==
    [][/\ NotInstalledIsUnchanged
       /\ UninstallOnlyInstalled'
       /\ (IsBrew /\ state = "absent" /\ runs > 1) =>
             \A n \in 1..Len(log') :
                /\ log'[n].op # "uninstall"
                /\ Mutating(log'[n]) =>
                      /\ log'[n].op \in {"update", "upgrade_all"}
                      /\ log'[n].op = "update" => update_linuxbrew
                      /\ log'[n].op = "upgrade_all" => upgrade_all
      ]_vars

C25_Witness ==
    /\ IsBrew /\ state = "absent" /\ runs = 2 /\ pc = "done"
    /\ ~update_linuxbrew /\ ~upgrade_all
    /\ Len(packages) = 2
    /\ Len(log) = 2
    /\ \A n \in LogIdx : log[n].op = "info" /\ ~log[n].ans
    /\ unchanged_count = 2 /\ changed_count = 0
    /\ result[1] = FALSE /\ result[2] = FALSE

\* C26: conda: a command to which N >= 1 channels are attached reads
\* executable, subcommand, "--channel", c1, ..., "--channel", cN and then
\* the remaining flags and the packages in their order: the channel pairs
\* come right after the subcommand word, in input order; without channels
\* no "--channel" is in the vector.
RECURSIVE Flatten(_)
Flatten(argv) == IF argv = <<>> THEN <<>> ELSE Head(argv) \o Flatten(Tail(argv))

ChannelsInPlace(argv) ==
    LET words == Flatten(argv)
        names == SplitWords(channels)
        N == Len(names)
        P == Len(packages)
    IN  /\ Len(words) >= 2 + 2 * N + P
        /\ words[1] = conda_path
        /\ words[2] \in {"install", "create"}
        /\ \A k \in 1..N :
              /\ words[2 * k + 1] = "--channel"
              /\ words[2 * k + 2] = names[k]
        /\ \A k \in (2 * N + 3)..Len(words) : words[k] # "--channel"
        /\ SubSeq(words, Len(words) - P + 1, Len(words)) = packages

C26_ChannelPairsAfterSubcommand ==
    IsConda =>
        \A n \in LogIdx :
            log[n].op \in {"install", "create"} =>
                IF SplitWords(channels) # <<>>
                THEN ChannelsInPlace(log[n].argv)
                ELSE \A k \in 1..Len(log[n].argv) : log[n].argv[k] # <<"--channel">>

\* C27: both variants: failed is absorbing within a run: once failed is
\* true no external command is issued, changed, changedCount and
\* unchangedCount keep their values, and the message run() returns is the
\* one the failing step set, never the "Changed: c, Unchanged: u" summary.
C27_FailedAbsorbing ==
    [][failed =>
          /\ pc = "run" /\ pc' = "done"
          /\ failed'
          /\ log' = log
          /\ changed' = changed
          /\ changed_count' = changed_count
          /\ unchanged_count' = unchanged_count
          /\ message' = message
          /\ result' = <<TRUE, changed, message>>
      ]_vars

C27_Witness ==
    /\ pc = "done" /\ failed
    /\ changed_count + unchanged_count > 1
    /\ log # <<>>
    /\ result[1] = TRUE
    /\ result[3] = message
    /\ message # SummaryMessage(changed_count, unchanged_count)

\* C28: both variants: in every state of a run and in the triple run()
\* returns, the changed flag agrees with the counter: changed is true iff
\* changedCount >= 1 (dry runs, self-update and upgrade-all included).
C28_ChangedAgreesWithCount ==
    /\ changed <=> changed_count >= 1
    /\ pc = "done" => (result[2] <=> changed_count >= 1)

\* C29: brew: within a run changedCount and unchangedCount never decrease,
\* a step raises their sum by at most one, and the sum never exceeds the
\* number of packages whose processing has started (so at the end of the
\* run it is at most the length of the batch).
C29_CountersBounded ==
    [][(IsBrew /\ runs' = runs) =>
          /\ changed_count' >= changed_count
          /\ unchanged_count' >= unchanged_count
          /\ changed_count' + unchanged_count'
                <= changed_count + unchanged_count + 1
          /\ changed_count' + unchanged_count' <= i'
          /\ i' <= Len(packages)
      ]_vars

C29_Witness ==
    /\ IsBrew /\ pc = "done"
    /\ Len(packages) = 3
    /\ changed_count >= 1 /\ unchanged_count >= 1
    /\ changed_count + unchanged_count = 3

\* C30 as stated: both variants: a run with an empty package list and
\* without the self-update and upgrade-all flags issues no mutating command
\* for any desired state and returns failed = FALSE, changed = FALSE, both
\* counters zero and the empty message.
EmptyRequest ==
    /\ packages = <<>>
    /\ ~update_linuxbrew /\ ~upgrade_all /\ ~update_conda

NoopOutcome ==
    /\ \A n \in LogIdx : ~Mutating(log[n])
    /\ ~failed /\ ~changed
    /\ changed_count = 0 /\ unchanged_count = 0
    /\ message = ""
    /\ pc = "done" => result = <<FALSE, FALSE, "">>

C31_QueryCommandQuery ==
    IsBrew =>
        \A n \in LogIdx :
            (Mutating(log[n]) /\ log[n].idx > 0) =>
                /\ \A m \in LogIdx :
                      (Mutating(log[m]) /\ log[m].idx = log[n].idx) => m = n
                /\ \E m \in 1..(n - 1) :
                      /\ Discovery(log[m])
                      /\ log[m].idx = log[n].idx
                      /\ log[m].argv[3] = <<packages[log[n].idx]>>
                /\ log[n].op \in {"install", "upgrade", "uninstall"} =>
                      IF n = Len(log)
                      THEN pc \in ConfirmPcs /\ i = log[n].idx
                      ELSE /\ log[n + 1].op = "info"
                           /\ log[n + 1].idx = log[n].idx
                           /\ log[n + 1].argv[3] = <<packages[log[n].idx]>>

C31_Witness ==
    /\ IsBrew /\ pc = "done" /\ ~failed
    /\ Len(packages) = 2
    /\ Len(log) = 6
    /\ \A k \in 1..2 :
          /\ log[3 * k - 2].op = "info" /\ log[3 * k - 2].idx = k
          /\ log[3 * k - 1].op \in {"install", "uninstall"}
          /\ log[3 * k - 1].idx = k
          /\ log[3 * k].op = "info" /\ log[3 * k].idx = k

\* C32: given that every external command returns, every run over a finite
\* batch reaches the state in which run() has returned its triple, returns
\* exactly one triple, and gets there in a single pass over the batch: the
\* loop position only moves forward by one, no step is taken twice in the
\* same position, and nothing happens in the run after the return.
Returned == pc = "done" /\ Len(result) = 3

SinglePass ==
    runs' = runs =>
        /\ i' \in {i, i + 1}
        /\ i' <= Len(packages)
        /\ <<pc', i'>> # <<pc, i>>
        /\ pc # "done"
        /\ result' # result => (result = <<>> /\ pc' = "done")

C32_RunTerminates ==
    /\ []<>Returned
    /\ [][SinglePass]_vars

C32_Witness ==
    /\ Returned
    /\ Len(packages) = 3 /\ i = 3
    /\ ~failed
    /\ Len(log) >= 3

\* C33: conda, state absent with an existing environment: the removal
\* command names every requested package, so that its argument vector is
\* not the one issued for state remove_env on the same environment, and
\* the environment still exists after an absent run that succeeded.
RemoveEnvArgv == Words(<<conda_path, "remove", "-y", "-n", environment>>)

C33_AbsentNamesPackages ==
    (IsConda /\ state = "absent") =>
        \A n \in LogIdx :
            log[n].op = "remove" =>
                /\ \A k \in 1..Len(packages) :
                      \E j \in 1..Len(log[n].argv) :
                          log[n].argv[j] = <<packages[k]>>
                /\ log[n].argv # RemoveEnvArgv
                /\ (log[n].rc = 0 /\ pc = "done" /\ ~failed) =>
                      environment \in envs

\* C34: brew, state installed, not a dry run: when the installed query
\* reported the package missing and the install command was issued, the
\* unit is recorded as changed iff the query made again after the install
\* reports installed; if it reports not installed the run fails with no
\* counter incremented and the install command's trimmed stderr as message.
C34_InstallConfirmed ==
    [][(IsBrew /\ state = "installed" /\ pc = "install_confirm") =>
          /\ ~check_mode
          /\ Len(log) >= 2
          /\ log[Len(log)].op = "install" /\ log[Len(log)].idx = i
          /\ log[Len(log) - 1].op = "info" /\ log[Len(log) - 1].idx = i
          /\ ~log[Len(log) - 1].ans
          /\ Len(Appended) = 1
          /\ Appended[1].op = "info" /\ Appended[1].idx = i
          /\ Appended[1].ans =>
                /\ changed' /\ changed_count' = changed_count + 1
                /\ unchanged_count' = unchanged_count
                /\ ~failed'
                /\ pc' = "_install_packages"
          /\ ~Appended[1].ans =>
                /\ failed'
                /\ changed' = changed
                /\ changed_count' = changed_count
                /\ unchanged_count' = unchanged_count
                /\ pc' = "run"
                /\ message' = IF log[Len(log)].err = <<>> THEN "" ELSE "Err"
      ]_vars

C34_Witness ==
    /\ IsBrew /\ state = "installed" /\ ~check_mode /\ pc = "done"
    /\ Len(log) = 3
    /\ log[1].op = "info" /\ ~log[1].ans
    /\ log[2].op = "install" /\ log[2].rc = 1
    /\ log[3].op = "info" /\ ~log[3].ans
    /\ changed_count = 0 /\ unchanged_count = 0
    /\ result = <<TRUE, FALSE, "Err">>

====
